---------------------------- MODULE Spec2Model ----------------------------
(***************************************************************************)
(* A model of the handlemap crate: Handle (src/src/handle.rs),             *)
(* SparseHandleMap (src/src/sparse.rs) and DenseHandleMap                  *)
(* (src/src/dense.rs).                                                     *)
(*                                                                         *)
(* Fixed-width integers.  TLC's integers are 32-bit signed, so a u32, a    *)
(* u64 and a usize (taken to be 64 bits wide) are kept as big-endian       *)
(* sequences of 16-bit digits: a u32 is <<hi, lo>>, a u64 / usize is       *)
(* <<d3, d2, d1, d0>>.  Arithmetic is done digit by digit with carry, so   *)
(* wrapping and overflow are those of the real widths.                     *)
(*                                                                         *)
(* Vectors.  A Vec is [len, at]: len is its length (a usize) and at maps   *)
(* the indices the model tracks to their elements.  An index below len     *)
(* that at does not map is an element the model does not track: a slot     *)
(* that was inserted once and has never been removed since.  This is what  *)
(* lets an initial state stand for a map that already holds close to 2^32  *)
(* slots.                                                                  *)
(***************************************************************************)
EXTENDS Integers, Sequences, FiniteSets, TLC

\* ------------------------------------------------------------------------
\* Fixed-width unsigned integers as digit sequences
\* ------------------------------------------------------------------------

\* The radix of one digit: 16 bits.
Radix == 2^16

\* A natural n < Radix^2 as a k-digit number, k = 2 or 4.
Num(n, k) ==
    IF k = 2 THEN <<n \div Radix, n % Radix>>
    ELSE <<0, 0, n \div Radix, n % Radix>>

\* x < y for two numbers of 2 digits.
Lt2(x, y) == x[1] < y[1] \/ (x[1] = y[1] /\ x[2] < y[2])

\* x < y for two numbers of the same width, 2 or 4 digits.
Lt(x, y) ==
    IF Len(x) = 2 THEN Lt2(x, y)
    ELSE \/ Lt2(x, y)
         \/ x[1] = y[1] /\ x[2] = y[2] /\ Lt2(<<x[3], x[4]>>, <<y[3], y[4]>>)

Leq(x, y) == x = y \/ Lt(x, y)

\* x + y + c for two numbers of 2 digits: the digits of the sum truncated to
\* 2 digits, and the carry out of the top digit.
Add2(x, y, c) ==
    LET lo == x[2] + y[2] + c
        hi == x[1] + y[1] + (lo \div Radix)
    IN  [digits |-> <<hi % Radix, lo % Radix>>, carry |-> hi \div Radix]

\* x + y + c for two numbers of the same width, 2 or 4 digits.
AddDigits(x, y, c) ==
    IF Len(x) = 2 THEN Add2(x, y, c)
    ELSE LET low  == Add2(<<x[3], x[4]>>, <<y[3], y[4]>>, c)
             high == Add2(<<x[1], x[2]>>, <<y[1], y[2]>>, low.carry)
         IN  [digits |-> high.digits \o low.digits, carry |-> high.carry]

\* x - y - b for two numbers of 2 digits: the digits of the difference
\* modulo Radix^2, and the borrow out of the top digit.
Sub2(x, y, b) ==
    LET lo == x[2] - y[2] - b
        hi == x[1] - y[1] - (IF lo < 0 THEN 1 ELSE 0)
    IN  [digits |-> <<(hi + Radix) % Radix, (lo + Radix) % Radix>>,
         borrow |-> IF hi < 0 THEN 1 ELSE 0]

\* x - y - b for two numbers of the same width, 2 or 4 digits.
SubDigits(x, y, b) ==
    IF Len(x) = 2 THEN Sub2(x, y, b)
    ELSE LET low  == Sub2(<<x[3], x[4]>>, <<y[3], y[4]>>, b)
             high == Sub2(<<x[1], x[2]>>, <<y[1], y[2]>>, low.borrow)
         IN  [digits |-> high.digits \o low.digits, borrow |-> high.borrow]

\* u32::MAX, as a u32 and as a usize (`u32::MAX as usize`).
U32_MAX == <<Radix - 1, Radix - 1>>
U32_MAX_usize == <<0, 0>> \o U32_MAX

\* usize::MAX on a 64-bit target.
USIZE_MAX == <<Radix - 1, Radix - 1, Radix - 1, Radix - 1>>

\* u32::wrapping_add
wrapping_add(x, y) == AddDigits(x, y, 0).digits

\* `x as usize` / `x as u64` of a u32: zero extension.
AsUsize(x) == <<0, 0>> \o x

\* `x as u32` of a usize / u64: truncation to the low 32 bits.
AsU32(x) == SubSeq(x, 3, 4)

\* Option<T>: None, or Some(x).
None == <<>>
Some(x) == <<x>>
Unwrap(o) == o[1]

\* ------------------------------------------------------------------------
\* Handle (src/src/handle.rs): the u64 id is the whole runtime value
\* ------------------------------------------------------------------------

from_raw(id) == id

\* ((meta as u64) << u32::BITS) + index as u64
from_parts(m, i) ==
    LET shifted == SubSeq(AsUsize(m), 3, 4) \o <<0, 0>>
    IN  AddDigits(shifted, AsUsize(i), 0).digits

raw(h) == h

\* self.id as u32
index(h) == AsU32(h)

\* self.index() as usize
uindex(h) == AsUsize(index(h))

\* meta without the shift.
meta_not_shifted(h) == AsU32(h)

\* (self.id >> u32::BITS) as u32
meta(h) == AsU32(<<0, 0>> \o SubSeq(h, 1, 2))

\* The phantom type is not part of the runtime value.
cast(h) == h

\* PartialEq::eq: self.id == other.id
Handle_eq(h, other) == raw(h) = raw(other)

\* ------------------------------------------------------------------------
\* Vec<E>
\* ------------------------------------------------------------------------

\* What stands for an element the model does not track.
Untracked == "untracked"

VecNew == [len |-> Num(0, 4), at |-> <<>>]

\* Vec::get: Some(element) if i < len, else None.
VecGet(vec, i) ==
    IF i \in DOMAIN vec.at THEN Some(vec.at[i])
    ELSE IF Lt(i, vec.len) THEN Some(Untracked)
    ELSE None

\* The element slot i is overwritten in place.
VecSet(vec, i, e) == [vec EXCEPT !.at[i] = e]

\* Vec::push
VecPush(vec, e) ==
    [len |-> AddDigits(vec.len, Num(1, 4), 0).digits,
     at  |-> (vec.len :> e) @@ vec.at]

\* Vec::swap_remove(i), for i < len: the last element takes the place of
\* element i and the vector shrinks by one.
VecSwapRemove(vec, i) ==
    LET last == SubDigits(vec.len, Num(1, 4), 0).digits
        moved == IF i = last THEN vec.at ELSE [vec.at EXCEPT ![i] = vec.at[last]]
    IN  [vec |-> [len |-> last,
                  at  |-> [k \in DOMAIN vec.at \ {last} |-> moved[k]]],
         ret |-> vec.at[i]]

\* ------------------------------------------------------------------------
\* SparseHandleMap (src/src/sparse.rs)
\*   values:    Vec<(Handle<T>, Option<T>)>, an element is <<handle, option>>
\*   available: VecDeque<usize>, front first
\* An operation that takes &mut self yields [self, ret, panic]: the map
\* after the call, the value returned, and whether the call panicked.
\* ------------------------------------------------------------------------

Sparse_new == [values |-> VecNew, available |-> <<>>]

\* self.values.len() - self.available.len()
Sparse_len(self) ==
    SubDigits(self.values.len, Num(Len(self.available), 4), 0).digits

Sparse_is_empty(self) == Sparse_len(self) = Num(0, 4)

Sparse_get(self, handle) ==
    LET found == VecGet(self.values, uindex(handle))
    IN  IF found = None THEN None
        ELSE IF handle # Unwrap(found)[1] THEN None
        ELSE Unwrap(found)[2]

\* get_mut hands out the place of the value: Some(slot index) where get
\* hands out Some(value).
Sparse_get_mut(self, handle) ==
    LET found == VecGet(self.values, uindex(handle))
    IN  IF found = None THEN None
        ELSE IF handle # Unwrap(found)[1] THEN None
        ELSE IF Unwrap(found)[2] = None THEN None
        ELSE Some(uindex(handle))

\* `self[handle] = value`: index_mut is get_mut(handle).expect("valid handle").
Sparse_index_mut(self, handle, value) ==
    LET place == Sparse_get_mut(self, handle)
    IN  IF place = None THEN [self |-> self, ret |-> None, panic |-> TRUE]
        ELSE LET i == Unwrap(place)
             IN  [self  |-> [self EXCEPT !.values =
                                VecSet(@, i, <<self.values.at[i][1], Some(value)>>)],
                  ret   |-> None,
                  panic |-> FALSE]

\* overflow_checks: whether the build panics on integer overflow (a debug
\* build does, a release build wraps).
Sparse_predict_handle(self, count, overflow_checks) ==
    IF Lt(count, Num(Len(self.available), 4))
    THEN \* self.available.get(count) is Some(index)
         LET idx   == self.available[count[4] + 1]
             found == VecGet(self.values, idx)
         IN  IF found = None THEN [ret |-> None, panic |-> TRUE]
             ELSE LET handle == Unwrap(found)[1]
                  IN  [ret   |-> Some(from_parts(wrapping_add(meta(handle), Num(1, 2)),
                                                 index(handle))),
                       panic |-> FALSE]
    ELSE LET new_count == SubDigits(count, Num(Len(self.available), 4), 0).digits
             sum       == AddDigits(self.values.len, new_count, 0)
             new_index == sum.digits
         IN  IF sum.carry # 0 /\ overflow_checks THEN [ret |-> None, panic |-> TRUE]
             ELSE IF Leq(new_index, U32_MAX_usize)
             THEN [ret |-> Some(from_parts(Num(0, 2), AsU32(new_index))), panic |-> FALSE]
             ELSE [ret |-> None, panic |-> TRUE]

Sparse_predict_next_handle(self, overflow_checks) ==
    Sparse_predict_handle(self, Num(0, 4), overflow_checks)

\* Sparse_insert with the generation left as it is when a slot is reused.
Sparse_insert_same_generation(self, value) ==
    IF self.available # <<>>
    THEN LET idx   == Head(self.available)
             rest  == Tail(self.available)
             found == VecGet(self.values, idx)
         IN  IF found = None
             THEN [self  |-> [self EXCEPT !.available = rest],
                   ret   |-> None,
                   panic |-> TRUE]
             ELSE LET handle == Unwrap(found)[1]
                  IN  [self  |-> [values    |-> VecSet(self.values, idx, <<handle, Some(value)>>),
                                  available |-> rest],
                       ret   |-> Some(handle),
                       panic |-> FALSE]
    ELSE LET new_index == self.values.len
         IN  IF Leq(new_index, U32_MAX_usize)
             THEN LET handle == from_parts(Num(0, 2), AsU32(new_index))
                  IN  [self  |-> [self EXCEPT !.values = VecPush(@, <<handle, Some(value)>>)],
                       ret   |-> Some(handle),
                       panic |-> FALSE]
             ELSE [self |-> self, ret |-> None, panic |-> TRUE]

\* Sparse_insert without the capacity check.
Sparse_insert_unchecked(self, value) ==
    IF self.available # <<>>
    THEN LET idx   == Head(self.available)
             rest  == Tail(self.available)
             found == VecGet(self.values, idx)
         IN  IF found = None
             THEN [self  |-> [self EXCEPT !.available = rest],
                   ret   |-> None,
                   panic |-> TRUE]
             ELSE LET old    == Unwrap(found)[1]
                      handle == from_parts(wrapping_add(meta(old), Num(1, 2)), index(old))
                  IN  [self  |-> [values    |-> VecSet(self.values, idx, <<handle, Some(value)>>),
                                  available |-> rest],
                       ret   |-> Some(handle),
                       panic |-> FALSE]
    ELSE LET new_index == self.values.len
             handle    == from_parts(Num(0, 2), AsU32(new_index))
         IN  [self  |-> [self EXCEPT !.values = VecPush(@, <<handle, Some(value)>>)],
              ret   |-> Some(handle),
              panic |-> FALSE]

\* Sparse_insert that takes the slot freed last (pop_back).
Sparse_insert_lifo(self, value) ==
    IF self.available # <<>>
    THEN LET idx   == self.available[Len(self.available)]
             rest  == SubSeq(self.available, 1, Len(self.available) - 1)
             found == VecGet(self.values, idx)
         IN  IF found = None
             THEN [self  |-> [self EXCEPT !.available = rest],
                   ret   |-> None,
                   panic |-> TRUE]
             ELSE LET old    == Unwrap(found)[1]
                      handle == from_parts(wrapping_add(meta(old), Num(1, 2)), index(old))
                  IN  [self  |-> [values    |-> VecSet(self.values, idx, <<handle, Some(value)>>),
                                  available |-> rest],
                       ret   |-> Some(handle),
                       panic |-> FALSE]
    ELSE LET new_index == self.values.len
         IN  IF Leq(new_index, U32_MAX_usize)
             THEN LET handle == from_parts(Num(0, 2), AsU32(new_index))
                  IN  [self  |-> [self EXCEPT !.values = VecPush(@, <<handle, Some(value)>>)],
                       ret   |-> Some(handle),
                       panic |-> FALSE]
             ELSE [self |-> self, ret |-> None, panic |-> TRUE]

Sparse_insert(self, value) ==
    IF self.available # <<>>
    THEN \* pop_front, then self.values[index]
         LET idx   == Head(self.available)
             rest  == Tail(self.available)
             found == VecGet(self.values, idx)
         IN  IF found = None
             THEN [self  |-> [self EXCEPT !.available = rest],
                   ret   |-> None,
                   panic |-> TRUE]
             ELSE LET old    == Unwrap(found)[1]
                      handle == from_parts(wrapping_add(meta(old), Num(1, 2)), index(old))
                  IN  [self  |-> [values    |-> VecSet(self.values, idx, <<handle, Some(value)>>),
                                  available |-> rest],
                       ret   |-> Some(handle),
                       panic |-> FALSE]
    ELSE LET new_index == self.values.len
         IN  IF Leq(new_index, U32_MAX_usize)
             THEN LET handle == from_parts(Num(0, 2), AsU32(new_index))
                  IN  [self  |-> [self EXCEPT !.values = VecPush(@, <<handle, Some(value)>>)],
                       ret   |-> Some(handle),
                       panic |-> FALSE]
             ELSE [self |-> self, ret |-> None, panic |-> TRUE]

\* Sparse_remove without the comparison of the handle with the stored one.
Sparse_remove_any_generation(self, handle) ==
    LET found == VecGet(self.values, uindex(handle))
    IN  IF found = None THEN [self |-> self, ret |-> None, panic |-> FALSE]
        ELSE IF Unwrap(found)[2] = None THEN [self |-> self, ret |-> None, panic |-> FALSE]
        ELSE [self  |-> [values    |-> VecSet(self.values, uindex(handle),
                                              <<Unwrap(found)[1], None>>),
                         available |-> Append(self.available, uindex(handle))],
              ret   |-> Unwrap(found)[2],
              panic |-> FALSE]

\* Sparse_remove that reads the value and leaves it in the slot.
Sparse_remove_value_left(self, handle) ==
    LET found == VecGet(self.values, uindex(handle))
    IN  IF found = None THEN [self |-> self, ret |-> None, panic |-> FALSE]
        ELSE IF handle # Unwrap(found)[1] THEN [self |-> self, ret |-> None, panic |-> FALSE]
        ELSE IF Unwrap(found)[2] = None THEN [self |-> self, ret |-> None, panic |-> FALSE]
        ELSE [self  |-> [self EXCEPT !.available = Append(@, uindex(handle))],
              ret   |-> Unwrap(found)[2],
              panic |-> FALSE]

\* Sparse_remove that does not put the slot on the free list.
Sparse_remove_not_freed(self, handle) ==
    LET found == VecGet(self.values, uindex(handle))
    IN  IF found = None THEN [self |-> self, ret |-> None, panic |-> FALSE]
        ELSE IF handle # Unwrap(found)[1] THEN [self |-> self, ret |-> None, panic |-> FALSE]
        ELSE IF Unwrap(found)[2] = None THEN [self |-> self, ret |-> None, panic |-> FALSE]
        ELSE [self  |-> [self EXCEPT !.values = VecSet(@, uindex(handle),
                                                       <<Unwrap(found)[1], None>>)],
              ret   |-> Unwrap(found)[2],
              panic |-> FALSE]

\* Sparse_remove that puts the slot on the free list also when it is empty.
Sparse_remove_empty_freed(self, handle) ==
    LET found == VecGet(self.values, uindex(handle))
    IN  IF found = None THEN [self |-> self, ret |-> None, panic |-> FALSE]
        ELSE IF handle # Unwrap(found)[1] THEN [self |-> self, ret |-> None, panic |-> FALSE]
        ELSE [self  |-> [values    |-> VecSet(self.values, uindex(handle),
                                              <<Unwrap(found)[1], None>>),
                         available |-> Append(self.available, uindex(handle))],
              ret   |-> Unwrap(found)[2],
              panic |-> FALSE]

\* Sparse_remove that increments the generation of the slot it empties.
Sparse_remove_generation_bumped(self, handle) ==
    LET found == VecGet(self.values, uindex(handle))
    IN  IF found = None THEN [self |-> self, ret |-> None, panic |-> FALSE]
        ELSE IF handle # Unwrap(found)[1] THEN [self |-> self, ret |-> None, panic |-> FALSE]
        ELSE IF Unwrap(found)[2] = None THEN [self |-> self, ret |-> None, panic |-> FALSE]
        ELSE [self  |-> [values    |-> VecSet(self.values, uindex(handle),
                                              <<from_parts(wrapping_add(meta(handle), Num(1, 2)),
                                                           index(handle)), None>>),
                         available |-> Append(self.available, uindex(handle))],
              ret   |-> Unwrap(found)[2],
              panic |-> FALSE]

Sparse_remove(self, handle) ==
    LET found == VecGet(self.values, uindex(handle))
    IN  IF found = None THEN [self |-> self, ret |-> None, panic |-> FALSE]
        ELSE IF handle # Unwrap(found)[1] THEN [self |-> self, ret |-> None, panic |-> FALSE]
        ELSE IF Unwrap(found)[2] = None THEN [self |-> self, ret |-> None, panic |-> FALSE]
        ELSE [self  |-> [values    |-> VecSet(self.values, uindex(handle),
                                              <<Unwrap(found)[1], None>>),
                         available |-> Append(self.available, uindex(handle))],
              ret   |-> Unwrap(found)[2],
              panic |-> FALSE]

\* The iterators of a map hold a slice iterator over self.values: `inner` is
\* the index of the element that the slice iterator yields next.  next()
\* yields [inner, ret]: the iterator after the call and the item returned.
\* A slot that the model does not follow holds a value, and its item is
\* Untracked.

\* Iter::next with the loop left at the first slot without a value.
Sparse_Iter_next_ends_at_empty(self, inner) ==
    LET found == VecGet(self.values, inner)
        after == AddDigits(inner, Num(1, 4), 0).digits
    IN  IF found = None THEN [inner |-> inner, ret |-> None]
        ELSE IF Unwrap(found) = Untracked THEN [inner |-> after, ret |-> Some(Untracked)]
        ELSE IF Unwrap(found)[2] # None
        THEN [inner |-> after, ret |-> Some(<<Unwrap(found)[1], Unwrap(Unwrap(found)[2])>>)]
        ELSE [inner |-> after, ret |-> None]

RECURSIVE Sparse_Iter_next(_, _)
Sparse_Iter_next(self, inner) ==
    LET found == VecGet(self.values, inner)
        after == AddDigits(inner, Num(1, 4), 0).digits
    IN  IF found = None THEN [inner |-> inner, ret |-> None]
        ELSE IF Unwrap(found) = Untracked THEN [inner |-> after, ret |-> Some(Untracked)]
        ELSE IF Unwrap(found)[2] # None
        THEN [inner |-> after, ret |-> Some(<<Unwrap(found)[1], Unwrap(Unwrap(found)[2])>>)]
        ELSE Sparse_Iter_next(self, after)

RECURSIVE Sparse_Handles_next(_, _)
Sparse_Handles_next(self, inner) ==
    LET found == VecGet(self.values, inner)
        after == AddDigits(inner, Num(1, 4), 0).digits
    IN  IF found = None THEN [inner |-> inner, ret |-> None]
        ELSE IF Unwrap(found) = Untracked THEN [inner |-> after, ret |-> Some(Untracked)]
        ELSE IF Unwrap(found)[2] # None
        THEN [inner |-> after, ret |-> Some(Unwrap(found)[1])]
        ELSE Sparse_Handles_next(self, after)

RECURSIVE Sparse_Values_next(_, _)
Sparse_Values_next(self, inner) ==
    LET found == VecGet(self.values, inner)
        after == AddDigits(inner, Num(1, 4), 0).digits
    IN  IF found = None THEN [inner |-> inner, ret |-> None]
        ELSE IF Unwrap(found) = Untracked THEN [inner |-> after, ret |-> Some(Untracked)]
        ELSE IF Unwrap(found)[2] # None
        THEN [inner |-> after, ret |-> Some(Unwrap(Unwrap(found)[2]))]
        ELSE Sparse_Values_next(self, after)

\* The items that an iterator yields until next() returns None.
RECURSIVE Sparse_Iter_collect(_, _)
Sparse_Iter_collect(self, inner) ==
    LET n == Sparse_Iter_next(self, inner)
    IN  IF n.ret = None THEN <<>>
        ELSE <<Unwrap(n.ret)>> \o Sparse_Iter_collect(self, n.inner)

RECURSIVE Sparse_Handles_collect(_, _)
Sparse_Handles_collect(self, inner) ==
    LET n == Sparse_Handles_next(self, inner)
    IN  IF n.ret = None THEN <<>>
        ELSE <<Unwrap(n.ret)>> \o Sparse_Handles_collect(self, n.inner)

RECURSIVE Sparse_Values_collect(_, _)
Sparse_Values_collect(self, inner) ==
    LET n == Sparse_Values_next(self, inner)
    IN  IF n.ret = None THEN <<>>
        ELSE <<Unwrap(n.ret)>> \o Sparse_Values_collect(self, n.inner)

\* The slots that the model does not follow are the first of the vector: the
\* index of the first slot that it follows is their number.
FirstTracked(vec) ==
    IF DOMAIN vec.at = {} THEN vec.len
    ELSE CHOOSE k \in DOMAIN vec.at : \A j \in DOMAIN vec.at : Leq(k, j)

\* iter(), handles() and values(), iterated to the end: the number of items
\* of the slots not followed, which come first, and the items that follow.
Sparse_iter(self) ==
    [untracked |-> FirstTracked(self.values),
     items     |-> Sparse_Iter_collect(self, FirstTracked(self.values))]

Sparse_handles(self) ==
    [untracked |-> FirstTracked(self.values),
     items     |-> Sparse_Handles_collect(self, FirstTracked(self.values))]

Sparse_values(self) ==
    [untracked |-> FirstTracked(self.values),
     items     |-> Sparse_Values_collect(self, FirstTracked(self.values))]

\* ------------------------------------------------------------------------
\* DenseHandleMap (src/src/dense.rs)
\*   link:   SparseHandleMap<usize>, handle -> position in values
\*   values: Vec<(Handle<T>, T)>, an element is <<handle, value>>
\* ------------------------------------------------------------------------

Dense_new == [link |-> Sparse_new, values |-> VecNew]

Dense_len(self) == self.values.len

Dense_is_empty(self) == self.values.len = Num(0, 4)

\* self.values[index] panics when index is out of range.
Dense_get(self, handle) ==
    LET pos == Sparse_get(self.link, cast(handle))
    IN  IF pos = None THEN [ret |-> None, panic |-> FALSE]
        ELSE LET found == VecGet(self.values, Unwrap(pos))
             IN  IF found = None THEN [ret |-> None, panic |-> TRUE]
                 ELSE [ret |-> Some(Unwrap(found)[2]), panic |-> FALSE]

Dense_get_mut(self, handle) ==
    LET pos == Sparse_get(self.link, cast(handle))
    IN  IF pos = None THEN [ret |-> None, panic |-> FALSE]
        ELSE LET found == VecGet(self.values, Unwrap(pos))
             IN  IF found = None THEN [ret |-> None, panic |-> TRUE]
                 ELSE [ret |-> Some(Unwrap(pos)), panic |-> FALSE]

Dense_insert(self, value) ==
    LET new_index == self.values.len
        linked    == Sparse_insert(self.link, new_index)
    IN  IF linked.panic
        THEN [self |-> [self EXCEPT !.link = linked.self], ret |-> None, panic |-> TRUE]
        ELSE LET handle == cast(Unwrap(linked.ret))
             IN  [self  |-> [link |-> linked.self,
                             values |-> VecPush(self.values, <<handle, value>>)],
                  ret   |-> Some(handle),
                  panic |-> FALSE]

\* Dense_remove without the correction of the swapped value's linked index.
Dense_remove_not_relinked(self, handle) ==
    LET unlinked == Sparse_remove(self.link, cast(handle))
    IN  IF unlinked.ret = None
        THEN [self |-> [self EXCEPT !.link = unlinked.self], ret |-> None, panic |-> FALSE]
        ELSE LET idx == Unwrap(unlinked.ret)
             IN  IF ~Lt(idx, self.values.len)
                 THEN [self |-> [self EXCEPT !.link = unlinked.self],
                       ret |-> None, panic |-> TRUE]
                 ELSE LET removed == VecSwapRemove(self.values, idx)
                      IN  [self  |-> [link |-> unlinked.self, values |-> removed.vec],
                           ret   |-> Some(removed.ret[2]),
                           panic |-> FALSE]

Dense_remove(self, handle) ==
    LET unlinked == Sparse_remove(self.link, cast(handle))
    IN  IF unlinked.ret = None
        THEN [self |-> [self EXCEPT !.link = unlinked.self], ret |-> None, panic |-> FALSE]
        ELSE LET idx == Unwrap(unlinked.ret)
             IN  IF ~Lt(idx, self.values.len)
                 THEN \* swap_remove panics: index out of bounds
                      [self |-> [self EXCEPT !.link = unlinked.self],
                       ret |-> None, panic |-> TRUE]
                 ELSE LET removed == VecSwapRemove(self.values, idx)
                          swapped == VecGet(removed.vec, idx)
                          relink  == IF swapped = None
                                     THEN [self |-> unlinked.self, panic |-> FALSE]
                                     ELSE Sparse_index_mut(unlinked.self,
                                                           cast(Unwrap(swapped)[1]), idx)
                      IN  [self  |-> [link |-> relink.self, values |-> removed.vec],
                           ret   |-> IF relink.panic THEN None ELSE Some(removed.ret[2]),
                           panic |-> relink.panic]

\* Iter::next, Handles::next and Values::next map the element that the slice
\* iterator yields.
Dense_Iter_next(self, inner) ==
    LET found == VecGet(self.values, inner)
        after == AddDigits(inner, Num(1, 4), 0).digits
    IN  IF found = None THEN [inner |-> inner, ret |-> None]
        ELSE IF Unwrap(found) = Untracked THEN [inner |-> after, ret |-> Some(Untracked)]
        ELSE [inner |-> after, ret |-> Some(<<Unwrap(found)[1], Unwrap(found)[2]>>)]

Dense_Handles_next(self, inner) ==
    LET found == VecGet(self.values, inner)
        after == AddDigits(inner, Num(1, 4), 0).digits
    IN  IF found = None THEN [inner |-> inner, ret |-> None]
        ELSE IF Unwrap(found) = Untracked THEN [inner |-> after, ret |-> Some(Untracked)]
        ELSE [inner |-> after, ret |-> Some(Unwrap(found)[1])]

RECURSIVE Dense_Iter_collect(_, _)
Dense_Iter_collect(self, inner) ==
    LET n == Dense_Iter_next(self, inner)
    IN  IF n.ret = None THEN <<>>
        ELSE <<Unwrap(n.ret)>> \o Dense_Iter_collect(self, n.inner)

RECURSIVE Dense_Handles_collect(_, _)
Dense_Handles_collect(self, inner) ==
    LET n == Dense_Handles_next(self, inner)
    IN  IF n.ret = None THEN <<>>
        ELSE <<Unwrap(n.ret)>> \o Dense_Handles_collect(self, n.inner)

Dense_iter(self) ==
    [untracked |-> FirstTracked(self.values),
     items     |-> Dense_Iter_collect(self, FirstTracked(self.values))]

Dense_handles(self) ==
    [untracked |-> FirstTracked(self.values),
     items     |-> Dense_Handles_collect(self, FirstTracked(self.values))]

\* ------------------------------------------------------------------------
\* The program: one SparseHandleMap<T> and one DenseHandleMap<T>, created
\* empty and driven by the same calls, as the tests of both modules do.
\* ------------------------------------------------------------------------

VARIABLES
    sparse,       \* the SparseHandleMap
    dense,        \* the DenseHandleMap
    sparse_hist,  \* history of the calls made on sparse (see HistNew)
    dense_hist,   \* history of the calls made on dense
    calls         \* the number of insert calls made since the initial state

\* The handle functions, applied on their own.
VARIABLES
    arg_meta,     \* the u32 passed to from_parts as meta
    arg_index,    \* the u32 passed to from_parts as index
    arg_id,       \* the u64 passed to from_raw as id
    made,         \* None, or Some(the handle made last)
    made_by       \* the function that made it

\* A prediction made of the sparse map and what became of it.
VARIABLES
    predicted     \* None, or Some(the prediction made, see Predicted)

map_vars == <<sparse, dense, sparse_hist, dense_hist, calls, predicted>>

handle_vars == <<arg_meta, arg_index, arg_id, made, made_by>>

vars == <<sparse, dense, sparse_hist, dense_hist, calls, predicted,
          arg_meta, arg_index, arg_id, made, made_by>>

\* No handle function has been applied on its own.
HandleIdle ==
    /\ arg_meta = Num(0, 2)
    /\ arg_index = Num(0, 2)
    /\ arg_id = Num(0, 4)
    /\ made = None
    /\ made_by = "none"

\* Most slots the model tracks in one map.
MaxSlots == 3

\* Most insert calls made in one run.
MaxInserts == 4

\* The values stored.
Values == {"a", "b"}

\* The history of a map records, from the calls made and their results:
\*   issued   handle |-> value, for each handle an insert returned and on
\*            which remove has not been called since
\*   uses     slot index |-> the number of inserts that returned a handle
\*            of that slot, for each tracked slot
\*   removed  handle |-> uses of its slot when remove last returned a value
\*            for that handle
\*   inserts  the number of insert calls that returned a handle
\*   removes  the number of remove calls that returned a value
\*   panicked whether an insert call has panicked
\*   order    the handles of issued, in the order of the inserts that
\*            returned them
\*   freed    the slot indices for which a remove returned a value and of
\*            which no insert has returned a handle since, in the order of
\*            these removes
HistNew ==
    [issued |-> <<>>, uses |-> <<>>, removed |-> <<>>,
     inserts |-> Num(0, 4), removes |-> Num(0, 4), panicked |-> FALSE,
     order |-> <<>>, freed |-> <<>>]

\* The sequence seq without the element e.
Without(seq, e) ==
    LET Other(x) == x # e
    IN  SelectSeq(seq, Other)

HistInsert(hist, result, value) ==
    IF result.panic THEN [hist EXCEPT !.panicked = TRUE]
    ELSE LET handle == Unwrap(result.ret)
             slot   == uindex(handle)
             before == IF slot \in DOMAIN hist.uses THEN hist.uses[slot] ELSE Num(0, 4)
         IN  [hist EXCEPT !.issued  = (handle :> value) @@ @,
                          !.uses    = (slot :> AddDigits(before, Num(1, 4), 0).digits) @@ @,
                          !.inserts = AddDigits(@, Num(1, 4), 0).digits,
                          !.order   = Append(Without(@, handle), handle),
                          !.freed   = Without(@, slot)]

HistRemove(hist, result, handle) ==
    IF result.ret = None
    THEN [hist EXCEPT !.issued = [h \in DOMAIN hist.issued \ {handle} |-> hist.issued[h]],
                      !.order  = Without(@, handle)]
    ELSE [hist EXCEPT
            !.issued  = [h \in DOMAIN hist.issued \ {handle} |-> hist.issued[h]],
            !.removed = (handle :> hist.uses[uindex(handle)]) @@ @,
            !.removes = AddDigits(@, Num(1, 4), 0).digits,
            !.order   = Without(@, handle),
            !.freed   = Append(@, uindex(handle))]

\* A map that has been in use for long: 2^32 - (MaxSlots - 1) slots, each
\* inserted once and never removed, except the last, which has been removed
\* and reused until its generation reached u32::MAX.
AgedLen == SubDigits(<<0, 1, 0, 0>>, Num(MaxSlots - 1, 4), 0).digits
AgedIndex == SubDigits(AgedLen, Num(1, 4), 0).digits
AgedHandle == from_parts(U32_MAX, AsU32(AgedIndex))
AgedValue == "a"

AgedSparse ==
    [values    |-> [len |-> AgedLen,
                    at  |-> (AgedIndex :> <<AgedHandle, Some(AgedValue)>>)],
     available |-> <<>>]

AgedDense ==
    [link   |-> [values    |-> [len |-> AgedLen,
                                at  |-> (AgedIndex :> <<AgedHandle, Some(AgedIndex)>>)],
                 available |-> <<>>],
     values |-> [len |-> AgedLen,
                 at  |-> (AgedIndex :> <<AgedHandle, AgedValue>>)]]

\* Its history: every slot was inserted once, and the last one was removed
\* and reused u32::MAX times more, so that it has been used 2^32 times; the
\* handle of generation g was removed when the slot had been used g + 1
\* times.  Of the handles removed, the history keeps those of the
\* generations 0, 1 and u32::MAX - 1; of the handles issued, the one of the
\* last slot, which is the last that an insert returned.
AgedHist ==
    [issued  |-> (AgedHandle :> AgedValue),
     uses    |-> (AgedIndex :> <<0, 1, 0, 0>>),
     removed |-> [h \in {from_parts(m, AsU32(AgedIndex)) :
                            m \in {Num(0, 2), Num(1, 2),
                                   SubDigits(U32_MAX, Num(1, 2), 0).digits}}
                  |-> AddDigits(AsUsize(meta(h)), Num(1, 4), 0).digits],
     inserts |-> AddDigits(AgedLen, U32_MAX_usize, 0).digits,
     removes |-> U32_MAX_usize,
     panicked |-> FALSE,
     order   |-> <<AgedHandle>>,
     freed   |-> <<>>]

InitNew ==
    /\ sparse = Sparse_new
    /\ dense = Dense_new
    /\ sparse_hist = HistNew
    /\ dense_hist = HistNew
    /\ calls = 0
    /\ predicted = None
    /\ HandleIdle

InitAged ==
    /\ sparse = AgedSparse
    /\ dense = AgedDense
    /\ sparse_hist = AgedHist
    /\ dense_hist = AgedHist
    /\ calls = 0
    /\ predicted = None
    /\ HandleIdle

Init == InitNew \/ InitAged

\* The handles the caller passes to get and remove.  For each tracked slot:
\* the handle stored in it, the handle of the generation before (a stale
\* handle) and the handle of the generation after (a handle not issued yet).
\* And a handle for the first index past the end.
Near(handle) ==
    {handle,
     from_parts(wrapping_add(meta(handle), Num(1, 2)), index(handle)),
     from_parts(SubDigits(meta(handle), Num(1, 2), 0).digits, index(handle))}

SlotHandles(self) ==
    UNION {Near(self.values.at[k][1]) : k \in DOMAIN self.values.at}
    \cup (IF Leq(self.values.len, U32_MAX_usize)
          THEN {from_parts(Num(0, 2), AsU32(self.values.len))}
          ELSE {})

HandleInputs == SlotHandles(sparse) \cup SlotHandles(dense.link)

\* Whether the next insert appends a slot.
Grows(self) == self.available = <<>> /\ Leq(self.values.len, U32_MAX_usize)

Tracked(self) == Cardinality(DOMAIN self.values.at)

\* The record of a call predict_handle(count) that returned `handle`:
\*   count    the count passed
\*   free     whether count was less than the length of the free list
\*   left     the number of inserts still to return before the one predicted
\*   removed  whether a remove has returned a value since the prediction
\*   hit      None, or Some(what the insert predicted returned)
Predicted(self, count, handle) ==
    [handle  |-> handle,
     count   |-> count,
     free    |-> count < Len(self.available),
     left    |-> count,
     removed |-> FALSE,
     hit     |-> None]

\* The record after an insert and after a remove with the given result.
PredictedAfterInsert(pred, result) ==
    IF pred = None \/ Unwrap(pred).hit # None THEN pred
    ELSE IF Unwrap(pred).left = 0 THEN Some([Unwrap(pred) EXCEPT !.hit = Some(result.ret)])
    ELSE Some([Unwrap(pred) EXCEPT !.left = @ - 1])

PredictedAfterRemove(pred, result) ==
    IF pred = None \/ Unwrap(pred).hit # None \/ result.ret = None THEN pred
    ELSE Some([Unwrap(pred) EXCEPT !.removed = TRUE])

\* A run with a prediction ends when the insert predicted has returned.
Running == IF predicted = None THEN TRUE ELSE Unwrap(predicted).hit = None

Insert(value) ==
    /\ Running
    /\ calls < MaxInserts
    /\ calls' = calls + 1
    /\ Grows(sparse) => Tracked(sparse) < MaxSlots
    /\ Grows(dense.link) => Tracked(dense.link) < MaxSlots
    /\ LET s == Sparse_insert(sparse, value)
           d == Dense_insert(dense, value)
       IN  /\ sparse' = s.self
           /\ dense' = d.self
           /\ sparse_hist' = HistInsert(sparse_hist, s, value)
           /\ dense_hist' = HistInsert(dense_hist, d, value)
           /\ predicted' = PredictedAfterInsert(predicted, s)
    /\ UNCHANGED handle_vars

Remove(handle) ==
    LET s == Sparse_remove(sparse, handle)
        d == Dense_remove(dense, handle)
    IN  /\ Running
        /\ sparse' = s.self
        /\ dense' = d.self
        /\ sparse_hist' = HistRemove(sparse_hist, s, handle)
        /\ dense_hist' = HistRemove(dense_hist, d, handle)
        /\ predicted' = PredictedAfterRemove(predicted, s)
        /\ UNCHANGED calls
        /\ UNCHANGED handle_vars

Next ==
    \/ \E value \in Values : Insert(value)
    \/ \E handle \in HandleInputs : Remove(handle)

Spec == Init /\ [][Next]_vars

\* The handle functions on their own: the arguments are drawn at the start,
\* and from_parts and from_raw are applied to them.  The u32 drawn are those
\* of the tests of handle.rs, the least and the greatest, and those on
\* either side of a digit of the model.
U32Inputs ==
    {Num(0, 2), Num(1, 2), Num(1234, 2), Num(5678, 2),
     Num(Radix - 1, 2), <<1, 0>>, U32_MAX}

U64Inputs == {a \o b : a \in U32Inputs, b \in U32Inputs}

HandleInit ==
    /\ sparse = Sparse_new
    /\ dense = Dense_new
    /\ sparse_hist = HistNew
    /\ dense_hist = HistNew
    /\ calls = 0
    /\ predicted = None
    /\ arg_meta \in U32Inputs
    /\ arg_index \in U32Inputs
    /\ arg_id \in U64Inputs
    /\ made = None
    /\ made_by = "none"

FromParts ==
    /\ made' = Some(from_parts(arg_meta, arg_index))
    /\ made_by' = "from_parts"
    /\ UNCHANGED <<arg_meta, arg_index, arg_id>>
    /\ UNCHANGED map_vars

FromRaw ==
    /\ made' = Some(from_raw(arg_id))
    /\ made_by' = "from_raw"
    /\ UNCHANGED <<arg_meta, arg_index, arg_id>>
    /\ UNCHANGED map_vars

HandleNext == FromParts \/ FromRaw

HandleSpec == HandleInit /\ [][HandleNext]_vars

\* ------------------------------------------------------------------------
\* Properties
\* ------------------------------------------------------------------------

\* How often slot index i is on the free list.
TimesFree(self, i) ==
    Cardinality({k \in 1..Len(self.available) : self.available[k] = i})

\* b = a + 1 modulo 2^32, for two u32.
Succ32(a, b) ==
    \/ a = U32_MAX /\ b = <<0, 0>>
    \/ a[2] < Radix - 1 /\ b = <<a[1], a[2] + 1>>
    \/ a[2] = Radix - 1 /\ a[1] < Radix - 1 /\ b = <<a[1] + 1, 0>>

\* 2^32 as a u64.
TwoTo32 == <<0, 1, 0, 0>>

\* C1: SparseHandleMap round trip and stability.  Every handle that an
\* insert(v) returned, and on which remove has not been called since, gets v:
\* right after the insert and after any further inserts and removes of other
\* handles.
C1_SparseRoundTrip ==
    \A h \in DOMAIN sparse_hist.issued :
        Sparse_get(sparse, h) = Some(sparse_hist.issued[h])

\* C1 happens: h is still got after another handle r was removed and its slot
\* reused for n.
C1_Witness ==
    \E h \in DOMAIN sparse_hist.issued, n \in DOMAIN sparse_hist.issued :
        \E r \in DOMAIN sparse_hist.removed :
            /\ h # n /\ r # n
            /\ index(r) = index(n)
            /\ index(r) # index(h)
            /\ Sparse_get(sparse, h) = Some(sparse_hist.issued[h])

\* C2: DenseHandleMap compaction relink correctness.  Every handle that an
\* insert(v) returned, and on which remove has not been called since, gets v
\* without a panic, also after removals that swapped its entry into the
\* vacated position.
C2_DenseRoundTrip ==
    \A h \in DOMAIN dense_hist.issued :
        Dense_get(dense, h) = [ret |-> Some(dense_hist.issued[h]), panic |-> FALSE]

\* C2 happens: A, B, C were inserted in that order into an empty map with
\* different values for B and C, A was removed, C sits in position 0 and
\* B in position 1, and both are got.
C2_Witness ==
    \E a \in DOMAIN dense_hist.removed :
    \E b \in DOMAIN dense_hist.issued, c \in DOMAIN dense_hist.issued :
        /\ a = from_parts(Num(0, 2), Num(0, 2))
        /\ b = from_parts(Num(0, 2), Num(1, 2))
        /\ c = from_parts(Num(0, 2), Num(2, 2))
        /\ dense_hist.issued[b] # dense_hist.issued[c]
        /\ Dense_len(dense) = Num(2, 4)
        /\ Sparse_get(dense.link, cast(c)) = Some(Num(0, 4))
        /\ Sparse_get(dense.link, cast(b)) = Some(Num(1, 4))
        /\ Dense_get(dense, a).ret = None
        /\ Dense_get(dense, b).ret = Some(dense_hist.issued[b])
        /\ Dense_get(dense, c).ret = Some(dense_hist.issued[c])

\* C3: remove-then-miss, for both maps.  For a handle h that insert(v)
\* returned and that has not been removed, remove(h) returns v; in the map it
\* leaves, get(h) returns nothing, and a second remove(h) returns nothing and
\* changes nothing, so that the slot index is on the free list once.
C3_RemoveThenMiss ==
    /\ \A h \in DOMAIN sparse_hist.issued :
          LET first  == Sparse_remove(sparse, h)
              second == Sparse_remove(first.self, h)
          IN  /\ first.ret = Some(sparse_hist.issued[h])
              /\ ~first.panic
              /\ Sparse_get(first.self, h) = None
              /\ second = [self |-> first.self, ret |-> None, panic |-> FALSE]
              /\ TimesFree(second.self, uindex(h)) = 1
    /\ \A h \in DOMAIN dense_hist.issued :
          LET first  == Dense_remove(dense, h)
              second == Dense_remove(first.self, h)
          IN  /\ first.ret = Some(dense_hist.issued[h])
              /\ ~first.panic
              /\ Dense_get(first.self, h) = [ret |-> None, panic |-> FALSE]
              /\ second = [self |-> first.self, ret |-> None, panic |-> FALSE]
              /\ TimesFree(second.self.link, uindex(h)) = 1

\* C3 happens: a remove(h) has returned a value in both maps, the slot has
\* not been reused, and get(h) and a second remove(h) return nothing.
C3_Witness ==
    \E h \in DOMAIN sparse_hist.removed \cap DOMAIN dense_hist.removed :
        /\ VecGet(sparse.values, uindex(h)) = Some(<<h, None>>)
        /\ VecGet(dense.link.values, uindex(h)) = Some(<<h, None>>)
        /\ Sparse_get(sparse, h) = None
        /\ Sparse_remove(sparse, h).ret = None
        /\ Dense_get(dense, h).ret = None
        /\ Dense_remove(dense, h).ret = None
        /\ TimesFree(sparse, uindex(h)) = 1
        /\ TimesFree(dense.link, uindex(h)) = 1

\* C4 as claimed: once remove(h) has returned a value, get(h) and remove(h)
\* return nothing in every later state.
C4_StaleNeverLive ==
    \A h \in DOMAIN sparse_hist.removed :
        /\ Sparse_get(sparse, h) = None
        /\ Sparse_remove(sparse, h).ret = None

\* The number of times the slot of h has been reused since remove(h) last
\* returned a value.
ReusedSince(hist, h) == SubDigits(hist.uses[uindex(h)], hist.removed[h], 0).digits

\* C4, amended: once remove(h) has returned a value, get(h) and remove(h)
\* return nothing in every later state in which the slot of h has been reused
\* fewer than 2^32 times since.
C4_StaleUntilWrapped ==
    \A h \in DOMAIN sparse_hist.removed :
        Lt(ReusedSince(sparse_hist, h), TwoTo32) =>
            /\ Sparse_get(sparse, h) = None
            /\ Sparse_remove(sparse, h).ret = None

\* C4 happens: h was removed in this run, its slot has been reused since and
\* holds a value, and get(h) returns nothing.
C4_Witness ==
    \E h \in DOMAIN sparse_hist.removed \ DOMAIN AgedHist.removed :
        /\ calls > 0
        /\ Lt(Num(0, 4), ReusedSince(sparse_hist, h))
        /\ Lt(ReusedSince(sparse_hist, h), TwoTo32)
        /\ Unwrap(VecGet(sparse.values, uindex(h)))[2] # None
        /\ Sparse_get(sparse, h) = None
        /\ Sparse_remove(sparse, h).ret = None

\* C5: non-aliasing across reuse, for both maps.  When the free list is not
\* empty, its front slot was freed by a remove(h1) that returned a value, and
\* insert(w) returns a handle h3 of the same slot index and of the generation
\* of h1 plus one modulo 2^32; so h3 # h1, and in the map the insert leaves
\* get(h1) returns nothing and get(h3) returns w.
C5_NonAliasing ==
    /\ sparse.available # <<>> =>
          \A w \in Values :
              LET h1 == sparse.values.at[Head(sparse.available)][1]
                  r  == Sparse_insert(sparse, w)
                  h3 == Unwrap(r.ret)
              IN  /\ h1 \in DOMAIN sparse_hist.removed
                  /\ ~r.panic
                  /\ index(h3) = index(h1)
                  /\ Succ32(meta(h1), meta(h3))
                  /\ h3 # h1
                  /\ Sparse_get(r.self, h1) = None
                  /\ Sparse_get(r.self, h3) = Some(w)
    /\ dense.link.available # <<>> =>
          \A w \in Values :
              LET h1 == dense.link.values.at[Head(dense.link.available)][1]
                  r  == Dense_insert(dense, w)
                  h3 == Unwrap(r.ret)
              IN  /\ h1 \in DOMAIN dense_hist.removed
                  /\ ~r.panic
                  /\ index(h3) = index(h1)
                  /\ Succ32(meta(h1), meta(h3))
                  /\ h3 # h1
                  /\ Dense_get(r.self, h1) = [ret |-> None, panic |-> FALSE]
                  /\ Dense_get(r.self, h3) = [ret |-> Some(w), panic |-> FALSE]

\* C5 happens: h1 and h2 were inserted, h1 was removed, and an insert reused
\* its slot for h3, in both maps.
C5_Witness ==
    \E h1 \in DOMAIN sparse_hist.removed \cap DOMAIN dense_hist.removed :
    \E h2 \in DOMAIN sparse_hist.issued, h3 \in DOMAIN sparse_hist.issued :
        /\ index(h2) # index(h1)
        /\ index(h3) = index(h1)
        /\ Succ32(meta(h1), meta(h3))
        /\ h3 \in DOMAIN dense_hist.issued
        /\ Sparse_get(sparse, h1) = None
        /\ Sparse_get(sparse, h3) = Some(sparse_hist.issued[h3])
        /\ Dense_get(dense, h1).ret = None
        /\ Dense_get(dense, h3).ret = Some(dense_hist.issued[h3])

\* Most count passed to predict_handle, besides usize::MAX.
MaxPredict == 4

\* The result of the last of n + 1 consecutive insert calls, n a usize.  A
\* call that panics ends the run.
RECURSIVE InsertRun(_, _, _)
InsertRun(self, n, value) ==
    LET r == Sparse_insert(self, value)
    IN  IF r.panic \/ n = Num(0, 4) THEN [ret |-> r.ret, panic |-> r.panic]
        ELSE InsertRun(r.self, SubDigits(n, Num(1, 4), 0).digits, value)

\* The counts passed to predict_handle: 0..MaxPredict and, for a map within
\* MaxSlots slots of the capacity ceiling, usize::MAX.
PredictInputs(self) ==
    {Num(n, 4) : n \in 0..MaxPredict}
    \cup (IF Lt(self.values.len, AgedLen) THEN {} ELSE {USIZE_MAX})

\* C6: prediction accuracy.  For every count n, predict_handle(n) is the
\* result of the last of n + 1 consecutive inserts made from this state, in a
\* build with and in a build without overflow checks; and
\* predict_next_handle() is predict_handle(0).
C6_PredictionAccuracy ==
    \A n \in PredictInputs(sparse), overflow_checks \in BOOLEAN, v \in Values :
        /\ Sparse_predict_handle(sparse, n, overflow_checks) = InsertRun(sparse, n, v)
        /\ Sparse_predict_next_handle(sparse, overflow_checks)
               = InsertRun(sparse, Num(0, 4), v)

\* C7: length accounting, for both maps.  len() is the number of inserts that
\* returned a handle minus the number of removes that returned a value, and
\* is_empty() holds exactly when len() is 0.
C7_LengthAccounting ==
    /\ Sparse_len(sparse)
           = SubDigits(sparse_hist.inserts, sparse_hist.removes, 0).digits
    /\ Dense_len(dense)
           = SubDigits(dense_hist.inserts, dense_hist.removes, 0).digits
    /\ Sparse_is_empty(sparse) <=> sparse_hist.inserts = sparse_hist.removes
    /\ Dense_is_empty(dense) <=> dense_hist.inserts = dense_hist.removes

\* C7 happens: two inserts into an empty map, one remove that returned a
\* value, and the length of both maps is 1.
C7_Witness ==
    /\ sparse_hist.inserts = Num(2, 4) /\ sparse_hist.removes = Num(1, 4)
    /\ dense_hist.inserts = Num(2, 4) /\ dense_hist.removes = Num(1, 4)
    /\ Sparse_len(sparse) = Num(1, 4) /\ ~Sparse_is_empty(sparse)
    /\ Dense_len(dense) = Num(1, 4) /\ ~Dense_is_empty(dense)

\* The slot index of h is out of range.
OutOfRange(self, h) == ~Lt(uindex(h), self.values.len)

\* The slot of h stores a handle of another generation.
OtherGeneration(self, h) ==
    /\ uindex(h) \in DOMAIN self.values.at
    /\ meta(self.values.at[uindex(h)][1]) # meta(h)

\* The slot of h stores h and no value.
Emptied(self, h) ==
    /\ uindex(h) \in DOMAIN self.values.at
    /\ self.values.at[uindex(h)] = <<h, None>>

\* C8: expected absence, for both maps.  For a handle whose slot index is out
\* of range, or whose generation is not the one stored in the slot, or whose
\* slot holds no value, get, get_mut and remove return nothing, do not panic,
\* and remove leaves the map as it is.
C8_ExpectedAbsence ==
    \A h \in HandleInputs :
        /\ (OutOfRange(sparse, h) \/ OtherGeneration(sparse, h) \/ Emptied(sparse, h)) =>
              /\ Sparse_get(sparse, h) = None
              /\ Sparse_get_mut(sparse, h) = None
              /\ Sparse_remove(sparse, h) = [self |-> sparse, ret |-> None, panic |-> FALSE]
        /\ (OutOfRange(dense.link, h) \/ OtherGeneration(dense.link, h)
                \/ Emptied(dense.link, h)) =>
              /\ Dense_get(dense, h) = [ret |-> None, panic |-> FALSE]
              /\ Dense_get_mut(dense, h) = [ret |-> None, panic |-> FALSE]
              /\ Dense_remove(dense, h) = [self |-> dense, ret |-> None, panic |-> FALSE]

\* C8 happens: after some inserts, there are a handle out of range, a handle
\* of another generation than the one of the value in its slot, and a handle
\* whose slot was emptied, and remove returns nothing for each.
C8_Witness ==
    \E h1 \in HandleInputs, h2 \in HandleInputs, h3 \in HandleInputs :
        /\ calls > 0
        /\ OutOfRange(sparse, h1) /\ OutOfRange(dense.link, h1)
        /\ OtherGeneration(sparse, h2) /\ OtherGeneration(dense.link, h2)
        /\ sparse.values.at[uindex(h2)][2] # None
        /\ Emptied(sparse, h3) /\ Emptied(dense.link, h3)
        /\ \A h \in {h1, h2, h3} :
              /\ Sparse_remove(sparse, h).ret = None
              /\ Dense_remove(dense, h).ret = None

\* C9: capacity ceiling.  Every slot index is at most u32::MAX and is the
\* index of the handle stored in the slot, and every handle issued is of a
\* slot; an insert that finds the free list empty and more than u32::MAX
\* slots panics and leaves the map as it is; an insert that finds the free
\* list not empty does not panic.
C9_CapacityCeiling ==
    /\ \A k \in DOMAIN sparse.values.at :
          Leq(k, U32_MAX_usize) /\ uindex(sparse.values.at[k][1]) = k
    /\ \A k \in DOMAIN dense.link.values.at :
          Leq(k, U32_MAX_usize) /\ uindex(dense.link.values.at[k][1]) = k
    /\ Leq(sparse.values.len, TwoTo32)
    /\ Leq(dense.link.values.len, TwoTo32)
    /\ \A h \in DOMAIN sparse_hist.issued : uindex(h) \in DOMAIN sparse.values.at
    /\ \A h \in DOMAIN dense_hist.issued : uindex(h) \in DOMAIN dense.link.values.at
    /\ \A v \in Values :
          LET s == Sparse_insert(sparse, v)
              d == Dense_insert(dense, v)
          IN  /\ (sparse.available = <<>> /\ Lt(U32_MAX_usize, sparse.values.len)) =>
                    s = [self |-> sparse, ret |-> None, panic |-> TRUE]
              /\ (dense.link.available = <<>> /\ Lt(U32_MAX_usize, dense.link.values.len)) =>
                    d = [self |-> dense, ret |-> None, panic |-> TRUE]
              /\ sparse.available # <<>> => ~s.panic
              /\ dense.link.available # <<>> => ~d.panic

\* C9 happens: the slot of index u32::MAX exists, the free list is empty, and
\* an insert has panicked, in both maps.
C9_Witness ==
    /\ sparse_hist.panicked /\ dense_hist.panicked
    /\ U32_MAX_usize \in DOMAIN sparse.values.at
    /\ U32_MAX_usize \in DOMAIN dense.link.values.at
    /\ sparse.available = <<>> /\ dense.link.available = <<>>

\* C10: as documented on insert, the map never holds more than u32::MAX
\* slots: an insert that would make it do so panics.
C10_SlotCountCeiling ==
    /\ Leq(sparse.values.len, U32_MAX_usize)
    /\ Leq(dense.link.values.len, U32_MAX_usize)
    /\ \A v \in Values :
          (sparse.available = <<>> /\ sparse.values.len = U32_MAX_usize) =>
              Sparse_insert(sparse, v).panic

\* The slots of a map that the model follows and that hold a value.
Occupied(self) == {k \in DOMAIN self.values.at : self.values.at[k][2] # None}

\* C11: SparseHandleMap iteration.  iter() yields one item for each slot that
\* holds a value and none for an empty slot, in ascending order of the slot
\* index, each item made of the handle and the value stored in the slot;
\* handles() and values() yield the handles and the values of these items in
\* the same order; and the number of items is len().
C11_SparseIteration ==
    LET it    == Sparse_iter(sparse)
        items == it.items
        at    == sparse.values.at
    IN  /\ it.untracked = SubDigits(sparse.values.len, Num(Tracked(sparse), 4), 0).digits
        /\ Len(items) = Cardinality(Occupied(sparse))
        /\ \A j \in 1..Len(items) :
              LET k == uindex(items[j][1])
              IN  /\ k \in Occupied(sparse)
                  /\ items[j] = <<at[k][1], Unwrap(at[k][2])>>
        /\ \A i \in 1..Len(items), j \in 1..Len(items) :
              i < j => Lt(uindex(items[i][1]), uindex(items[j][1]))
        /\ Sparse_handles(sparse) =
              [untracked |-> it.untracked,
               items     |-> [j \in 1..Len(items) |-> items[j][1]]]
        /\ Sparse_values(sparse) =
              [untracked |-> it.untracked,
               items     |-> [j \in 1..Len(items) |-> items[j][2]]]
        /\ AddDigits(it.untracked, Num(Len(items), 4), 0).digits = Sparse_len(sparse)

\* Handle a is before handle b in the sequence seq.
Before(seq, a, b) ==
    \E i \in 1..Len(seq), j \in 1..Len(seq) : i < j /\ seq[i] = a /\ seq[j] = b

\* C11 happens: iter() skips an empty slot and yields two items in another
\* order than that of the inserts which returned their handles.
C11_Witness ==
    LET items == Sparse_iter(sparse).items
    IN  /\ calls > 0
        /\ \E k \in DOMAIN sparse.values.at : sparse.values.at[k][2] = None
        /\ \E i \in 1..Len(items), j \in 1..Len(items) :
              /\ i < j
              /\ Before(sparse_hist.order, items[j][1], items[i][1])

\* The handles a caller may hold of the dense map: those passed to get and
\* remove, those that an insert returned and those that a remove took.
DenseHandles ==
    HandleInputs \cup DOMAIN dense_hist.issued \cup DOMAIN dense_hist.removed

\* C12: DenseHandleMap iteration yields exactly the live entries.  handles()
\* yields each handle for which get returns a value, once, and no other
\* handle; iter() yields each of these handles with the value that get
\* returns for it, in the same order; and the number of items is len().
C12_DenseIteration ==
    LET it      == Dense_iter(dense)
        items   == it.items
        handles == Dense_handles(dense).items
        yielded == {handles[j] : j \in 1..Len(handles)}
    IN  /\ it.untracked = SubDigits(dense.values.len,
                                    Num(Cardinality(DOMAIN dense.values.at), 4), 0).digits
        /\ Len(handles) = Len(items)
        /\ Cardinality(yielded) = Len(handles)
        /\ \A h \in yielded : Dense_get(dense, h).ret # None
        /\ \A h \in DenseHandles : Dense_get(dense, h).ret # None => h \in yielded
        /\ \A j \in 1..Len(items) :
              /\ items[j][1] = handles[j]
              /\ Dense_get(dense, items[j][1]) = [ret |-> Some(items[j][2]), panic |-> FALSE]
        /\ AddDigits(it.untracked, Num(Len(items), 4), 0).digits = Dense_len(dense)

\* C12 happens: of three entries A, B and C inserted in that order, A was
\* removed, and the iteration yields C and then B, and not the handle of A.
C12_Witness ==
    LET items == Dense_iter(dense).items
    IN  /\ Len(items) = 2
        /\ Len(dense_hist.order) = 2
        /\ items[1][1] = dense_hist.order[2]
        /\ items[2][1] = dense_hist.order[1]
        /\ \E a \in DOMAIN dense_hist.removed :
              /\ Lt(uindex(a), uindex(items[2][1]))
              /\ Lt(uindex(items[2][1]), uindex(items[1][1]))
              /\ Dense_get(dense, a).ret = None

\* C13: handle encoding round trip.  from_parts(g, i) has meta() = g,
\* index() = i, uindex() = i and raw() = g * 2^32 + i, the addition giving no
\* carry; from_raw(r) has raw() = r; from_parts(meta, index) of a handle
\* rebuilds the handle; and two handles are equal iff their generations are
\* equal and their slot indices are equal.
C13_HandleRoundTrip ==
    made # None =>
        LET h == Unwrap(made)
        IN  /\ made_by = "from_parts" =>
                  /\ meta(h) = arg_meta
                  /\ index(h) = arg_index
                  /\ uindex(h) = <<0, 0>> \o arg_index
                  /\ raw(h) = arg_meta \o arg_index
                  /\ AddDigits(arg_meta \o <<0, 0>>, <<0, 0>> \o arg_index, 0).carry = 0
            /\ made_by = "from_raw" => raw(h) = arg_id
            /\ from_parts(meta(h), index(h)) = h
            /\ \A other \in {from_parts(arg_meta, arg_index), from_raw(arg_id)} :
                  Handle_eq(h, other) <=>
                      (meta(h) = meta(other) /\ index(h) = index(other))

\* C13 happens: from_parts was applied to the generation u32::MAX and the
\* slot index u32::MAX, and the handle made is from_raw of u64::MAX.
C13_Witness ==
    /\ made_by = "from_parts"
    /\ arg_meta = U32_MAX /\ arg_index = U32_MAX
    /\ arg_id = USIZE_MAX
    /\ made = Some(from_raw(arg_id))
    /\ meta(Unwrap(made)) = U32_MAX /\ index(Unwrap(made)) = U32_MAX

\* C14: FIFO slot reuse in SparseHandleMap::insert.  The free list holds the
\* free slots in the order of the removes that freed them.  If it is not
\* empty, insert returns a handle of the slot freed earliest, takes that slot
\* off the front of the list and leaves the number of slots as it is; if it
\* is empty and insert returns a handle, the handle has generation 0 and the
\* index that was the number of slots, and there is one slot more.
C14_FifoReuse ==
    /\ sparse.available = sparse_hist.freed
    /\ \A v \in Values :
          LET r == Sparse_insert(sparse, v)
          IN  /\ sparse.available # <<>> =>
                    /\ ~r.panic
                    /\ uindex(Unwrap(r.ret)) = sparse_hist.freed[1]
                    /\ r.self.available = Tail(sparse_hist.freed)
                    /\ r.self.values.len = sparse.values.len
                    /\ DOMAIN r.self.values.at = DOMAIN sparse.values.at
              /\ (sparse.available = <<>> /\ ~r.panic) =>
                    /\ Unwrap(r.ret) = from_parts(Num(0, 2), AsU32(sparse.values.len))
                    /\ uindex(Unwrap(r.ret)) = sparse.values.len
                    /\ r.self.values.len = AddDigits(sparse.values.len, Num(1, 4), 0).digits
                    /\ r.self.values.at[sparse.values.len] = <<Unwrap(r.ret), Some(v)>>
                    /\ r.self.available = <<>>

\* C14 happens: a slot was freed before a slot of lower index and after
\* another, and insert reuses the one freed first and not the one of the
\* least index or the one freed last.
C14_Witness ==
    /\ calls > 0
    /\ Len(sparse_hist.freed) = 3
    /\ Lt(sparse_hist.freed[2], sparse_hist.freed[1])
    /\ Lt(sparse_hist.freed[1], sparse_hist.freed[3])
    /\ \A v \in Values :
          uindex(Unwrap(Sparse_insert(sparse, v).ret)) = sparse_hist.freed[1]

\* C15: DenseHandleMap refines SparseHandleMap.  The two maps being driven by
\* the same inserts and removes, with handles returned so far or forged, an
\* insert returns handles of the same raw value in both, get and remove
\* return the same for every handle in both, and len() is the same in both.
C15_DenseRefinesSparse ==
    /\ Dense_len(dense) = Sparse_len(sparse)
    /\ Dense_is_empty(dense) = Sparse_is_empty(sparse)
    /\ \A v \in Values :
          LET s == Sparse_insert(sparse, v)
              d == Dense_insert(dense, v)
          IN  /\ d.panic = s.panic
              /\ (d.ret = None) = (s.ret = None)
              /\ s.ret # None => raw(Unwrap(d.ret)) = raw(Unwrap(s.ret))
    /\ \A h \in HandleInputs \cup DOMAIN sparse_hist.removed :
          LET s == Sparse_remove(sparse, h)
              d == Dense_remove(dense, h)
          IN  /\ Dense_get(dense, h) = [ret |-> Sparse_get(sparse, h), panic |-> FALSE]
              /\ d.ret = s.ret
              /\ d.panic = s.panic
    /\ dense_hist = sparse_hist

\* C15 happens: after removes that moved an entry of the dense map and
\* left a free slot, and an insert that reused a slot, a stale handle, a
\* handle not issued yet and a live handle get the same from both maps.
C15_Witness ==
    /\ calls > 0
    /\ sparse.available # <<>>
    /\ \E k \in DOMAIN dense.link.values.at :
          /\ dense.link.values.at[k][2] # None
          /\ Unwrap(dense.link.values.at[k][2]) # k
    /\ \E h \in HandleInputs, stale \in HandleInputs, forged \in HandleInputs :
          /\ Sparse_get(sparse, h) # None
          /\ Dense_get(dense, h).ret = Sparse_get(sparse, h)
          /\ stale \in DOMAIN sparse_hist.removed
          /\ uindex(stale) = uindex(h)
          /\ Dense_get(dense, stale).ret = None
          /\ forged \notin DOMAIN sparse_hist.removed \cup DOMAIN sparse_hist.issued
          /\ Dense_remove(dense, forged).ret = None
          /\ Sparse_remove(sparse, forged).ret = None

\* C16: DenseHandleMap link/dense consistency.  For every handle h live in
\* the link map, link[h] is a position of the dense vector and the handle
\* stored there is h; the handle of every dense entry is live in the link
\* map and linked to the position of the entry; and the length of the dense
\* vector is the len() of the link map.
C16_LinkDenseBijection ==
    LET link == dense.link.values.at
        vals == dense.values.at
    IN  /\ \A k \in Occupied(dense.link) :
              LET h == link[k][1]
                  p == Unwrap(Sparse_get(dense.link, h))
              IN  /\ Lt(p, dense.values.len)
                  /\ p \in DOMAIN vals
                  /\ vals[p][1] = h
        /\ \A p \in DOMAIN vals :
              /\ Lt(p, dense.values.len)
              /\ Sparse_get(dense.link, cast(vals[p][1])) = Some(p)
        /\ dense.values.len = Sparse_len(dense.link)
        /\ Cardinality(DOMAIN vals) = Cardinality(Occupied(dense.link))

\* C16 happens: a remove has moved the last entry of the dense vector into
\* the place of another, the link map has a free slot, and a live handle is
\* linked to a position that is not its slot index.
C16_Witness ==
    /\ calls > 0
    /\ dense_hist.removes # AgedHist.removes
    /\ dense.link.available # <<>>
    /\ \E k \in Occupied(dense.link) :
          LET p == Unwrap(dense.link.values.at[k][2])
          IN  /\ p # k
              /\ dense.values.at[p][1] = dense.link.values.at[k][1]

\* A SparseHandleMap is well formed.
WellFormed(self) ==
    LET at == self.values.at
    IN  /\ \A k \in DOMAIN at : uindex(at[k][1]) = k /\ Lt(k, self.values.len)
        /\ \A n \in 1..Len(self.available) :
              LET i == self.available[n]
              IN  /\ Lt(i, self.values.len)
                  /\ VecGet(self.values, i) # None
                  /\ i \in DOMAIN at
                  /\ at[i][2] = None
        /\ \A k \in DOMAIN at :
              TimesFree(self, k) = (IF at[k][2] = None THEN 1 ELSE 0)
        /\ SubDigits(self.values.len, Num(Len(self.available), 4), 0).digits
              = AddDigits(FirstTracked(self.values),
                          Num(Cardinality(Occupied(self)), 4), 0).digits

\* C17: SparseHandleMap well-formedness.  The handle stored in slot i has
\* slot index i; every index of the free list is the index of a slot without
\* a value; the index of every slot without a value is once on the free list;
\* and the number of slots less the length of the free list is the number of
\* slots with a value.
C17_SparseWellFormed ==
    /\ WellFormed(sparse)
    /\ WellFormed(dense.link)

\* C17 happens: the map has two free slots, freed in another order than that
\* of their indices, and a slot that was freed and reused.
C17_Witness ==
    /\ calls > 0
    /\ Len(sparse.available) = 2
    /\ Lt(sparse.available[2], sparse.available[1])
    /\ \E k \in Occupied(sparse) :
          /\ meta(sparse.values.at[k][1]) = Num(1, 2)
          /\ sparse_hist.uses[k] = Num(2, 4)

\* C18: frame of SparseHandleMap::remove.  A remove(h) that returns a value
\* empties the slot of h and appends its index to the free list; the handle
\* stored in every slot, that of the slot of h included, the value of every
\* other slot, the entries of the free list before and the number of slots
\* are as they were.
C18_SparseRemoveFrame ==
    \A h \in HandleInputs :
        LET r      == Sparse_remove(sparse, h)
            before == sparse.values
            after  == r.self.values
        IN  r.ret # None =>
                /\ after.len = before.len
                /\ DOMAIN after.at = DOMAIN before.at
                /\ \A k \in DOMAIN before.at : after.at[k][1] = before.at[k][1]
                /\ \A k \in DOMAIN before.at \ {uindex(h)} : after.at[k] = before.at[k]
                /\ after.at[uindex(h)] = <<h, None>>
                /\ r.ret = before.at[uindex(h)][2]
                /\ Len(r.self.available) = Len(sparse.available) + 1
                /\ SubSeq(r.self.available, 1, Len(sparse.available)) = sparse.available
                /\ r.self.available[Len(r.self.available)] = uindex(h)

\* C18 happens: a remove returned a value for a handle of a generation other
\* than 0, whose slot is empty and stores that handle still, the last of a
\* free list of two, another slot holding a value.
C18_Witness ==
    \E h \in DOMAIN sparse_hist.removed :
        /\ calls > 0
        /\ meta(h) # Num(0, 2)
        /\ sparse.values.at[uindex(h)] = <<h, None>>
        /\ Len(sparse.available) = 2
        /\ sparse.available[2] = uindex(h)
        /\ sparse_hist.freed[2] = uindex(h)
        /\ Occupied(sparse) # {}

\* C19: frame of DenseHandleMap swap-removal.  A remove that returns the
\* value of the entry at position p makes the dense vector one shorter and
\* moves the entry that was last into position p, linking its handle to p;
\* every other entry keeps its position and every other handle its link; the
\* link map is otherwise changed as by its own remove.  When p was the last
\* position, no entry is moved and no link of a remaining handle is written.
C19_DenseRemoveFrame ==
    \A h \in HandleInputs :
        LET d        == Dense_remove(dense, h)
            unlinked == Sparse_remove(dense.link, cast(h)).self
            before   == dense.values
            after    == d.self.values
            last     == SubDigits(before.len, Num(1, 4), 0).digits
        IN  d.ret # None =>
                LET p     == Unwrap(Sparse_get(dense.link, cast(h)))
                    moved == before.at[last][1]
                IN  /\ ~d.panic
                    /\ d.ret = Some(before.at[p][2])
                    /\ before.at[p][1] = h
                    /\ after.len = last
                    /\ DOMAIN after.at = DOMAIN before.at \ {last}
                    /\ \A q \in DOMAIN after.at \ {p} : after.at[q] = before.at[q]
                    /\ d.self.link.available = unlinked.available
                    /\ d.self.link.values.len = unlinked.values.len
                    /\ DOMAIN d.self.link.values.at = DOMAIN unlinked.values.at
                    /\ p = last => d.self.link = unlinked
                    /\ p # last =>
                          /\ after.at[p] = before.at[last]
                          /\ moved # h
                          /\ \A k \in DOMAIN unlinked.values.at \ {uindex(moved)} :
                                d.self.link.values.at[k] = unlinked.values.at[k]
                          /\ d.self.link.values.at[uindex(moved)] = <<moved, Some(p)>>
                          /\ unlinked.values.at[uindex(moved)] = <<moved, Some(last)>>

\* C19 happens: three entries were inserted into an empty map and the first
\* was removed; the entry of the third handle is at position 0 and linked to
\* it, and the entry of the second is where it was.
C19_Witness ==
    /\ dense_hist.inserts = Num(3, 4)
    /\ dense_hist.removes = Num(1, 4)
    /\ dense.values.len = Num(2, 4)
    /\ uindex(dense.values.at[Num(0, 4)][1]) = Num(2, 4)
    /\ dense.link.values.at[Num(2, 4)][2] = Some(Num(0, 4))
    /\ uindex(dense.values.at[Num(1, 4)][1]) = Num(1, 4)
    /\ dense.link.values.at[Num(1, 4)][2] = Some(Num(1, 4))
    /\ dense.link.values.at[Num(0, 4)][2] = None

\* get(h) returns a value.  A slot that the model does not follow holds a
\* value and the handle of generation 0 that its one insert returned.
IsLive(self, h) ==
    IF Lt(uindex(h), FirstTracked(self.values)) THEN meta(h) = Num(0, 2)
    ELSE Sparse_get(self, h) # None

\* The handles a caller may hold of a map.
HeldHandles(hist) == HandleInputs \cup DOMAIN hist.issued \cup DOMAIN hist.removed

\* Those of them for which get returns a value.
LiveHandles(self, hist) == {h \in HeldHandles(hist) : IsLive(self, h)}

\* C20: live handles never alias, even under generation wraparound.  In
\* either map, two different handles for which get returns a value have
\* different slot indices, and get returns no value for the handle that
\* insert returns, in the state in which insert is called.
C20_LiveNeverAlias ==
    /\ LET live == LiveHandles(sparse, sparse_hist)
       IN  \A h1 \in live, h2 \in live : h1 # h2 => uindex(h1) # uindex(h2)
    /\ LET live == LiveHandles(dense.link, dense_hist)
       IN  \A h1 \in live, h2 \in live : h1 # h2 => uindex(h1) # uindex(h2)
    /\ \A v \in Values :
          LET s == Sparse_insert(sparse, v)
              d == Dense_insert(dense, v)
          IN  /\ s.ret # None =>
                    /\ ~IsLive(sparse, Unwrap(s.ret))
                    /\ IsLive(s.self, Unwrap(s.ret))
              /\ d.ret # None =>
                    /\ ~IsLive(dense.link, cast(Unwrap(d.ret)))
                    /\ IsLive(d.self.link, cast(Unwrap(d.ret)))

\* C20 happens: the generation of a slot has wrapped, an insert having
\* returned its handle of generation 0 for the second time; that handle and
\* the handle of another slot are live, and the handle of generation
\* u32::MAX of the slot is not.
C20_Witness ==
    \E h \in DOMAIN sparse_hist.issued, other \in DOMAIN sparse_hist.issued :
        /\ meta(h) = Num(0, 2)
        /\ Lt(TwoTo32, sparse_hist.uses[uindex(h)])
        /\ h \in DOMAIN AgedHist.removed
        /\ IsLive(sparse, h) /\ IsLive(dense.link, h)
        /\ uindex(other) # uindex(h)
        /\ IsLive(sparse, other)
        /\ ~IsLive(sparse, from_parts(U32_MAX, index(h)))

\* The maps driven as in Spec, with one call of predict_handle made of the
\* sparse map at some point, in a build with or without overflow checks.  A
\* call that panics returns no handle and leaves no record.
Predict(count) ==
    /\ predicted = None
    /\ \E overflow_checks \in BOOLEAN :
          LET r == Sparse_predict_handle(sparse, Num(count, 4), overflow_checks)
          IN  /\ ~r.panic
              /\ predicted' = Some(Predicted(sparse, count, Unwrap(r.ret)))
    /\ UNCHANGED <<sparse, dense, sparse_hist, dense_hist, calls>>
    /\ UNCHANGED handle_vars

PredictNext ==
    \/ Next
    \/ \E count \in 0..MaxPredict : Predict(count)

PredictSpec == Init /\ [][PredictNext]_vars

\* C21: prediction is robust to removals for already-free slots.  A handle
\* that predict_handle(n) returned for n less than the length of the free
\* list is the handle that the (n + 1)-th insert after it returns, whatever
\* removes come in between; until then, it is what predict_handle returns
\* for the number of inserts still to come before that one.
C21_PredictionRobust ==
    predicted # None =>
        LET p == Unwrap(predicted)
        IN  p.free =>
                /\ p.hit # None => Unwrap(p.hit) = Some(p.handle)
                /\ p.hit = None =>
                      /\ p.left < Len(sparse.available)
                      /\ \A overflow_checks \in BOOLEAN :
                            Sparse_predict_handle(sparse, Num(p.left, 4), overflow_checks)
                                = [ret |-> Some(p.handle), panic |-> FALSE]

\* C21 happens: predict_handle(n) was called with 0 < n less than the length
\* of the free list, a remove returned a value before the n + 1 inserts were
\* made, and the last of them returned the handle predicted.
C21_Witness ==
    /\ predicted # None
    /\ Unwrap(predicted).free
    /\ Unwrap(predicted).count > 0
    /\ Unwrap(predicted).removed
    /\ Unwrap(predicted).hit = Some(Some(Unwrap(predicted).handle))

=============================================================================
